---- MODULE Spec2Model ----
(***************************************************************************)
(* AI Photo Pro: the App component (state, event handlers and the          *)
(* asynchronous continuation of handleGenerate), the encoder                *)
(* fileToGenerativePart and the adapter editImageWithPrompt.                *)
(*                                                                         *)
(* A JavaScript string is a sequence of pieces whose concatenation is the  *)
(* string.  A string the program searches, splits, tests for a prefix or   *)
(* concatenates is a sequence of one-character pieces, so that includes,   *)
(* startsWith, split and the template literal are computed.  A literal the *)
(* program only stores, tests for emptiness and passes on is one piece.    *)
(* null (for a string) is Null, a value no string of the model takes;      *)
(* null (for a File) is the record NoFile.  An object is a record and an   *)
(* absent (undefined) property is a field the record does not have.        *)
(***************************************************************************)
EXTENDS Naturals, Sequences, FiniteSets, Bags

VARIABLES
    originalImage,     \* useState<File | null>
    originalImageUrl,  \* useState<string | null>
    editedImageUrl,    \* useState<string | null>
    prompt,            \* useState<string>
    isLoading,         \* useState<boolean>
    error,             \* useState<string | null>
    previewReads,      \* FileReaders started by handleImageChange, not yet ended
    requests,          \* handleGenerate invocations suspended at an await
    hung,              \* files of the invocations whose encoder promise can no longer settle
    call,              \* an invocation of editImageWithPrompt by an independent caller
    prevFailure        \* the failure that caller received from its previous invocation

uiVars == <<originalImage, originalImageUrl, editedImageUrl, prompt, isLoading, error,
            previewReads, requests, hung>>
adapterVars == <<call, prevFailure>>
vars == <<originalImage, originalImageUrl, editedImageUrl, prompt, isLoading, error,
          previewReads, requests, hung, call, prevFailure>>

-----------------------------------------------------------------------------
(* Bounds of the model. *)

\* The longest part list of a response drawn for a direct adapter call.
MaxParts == 3

\* The most handleGenerate invocations suspended at once.
MaxRequests == 2

\* The most preview FileReaders in flight at once.
MaxPreviewReads == 1

-----------------------------------------------------------------------------
(* String literals of the program. *)

\* null where a string may stand.
Null == <<"(null)">>

\* null where a File may stand.
NoFile == [null |-> TRUE]

AUTH_MESSAGE == <<"API key is invalid or missing required permissions.">>

GENERIC_MESSAGE == <<"Failed to process image with the AI model. Please try again later.">>

INVALID_RESPONSE_MESSAGE ==
    <<"I","n","v","a","l","i","d"," ","r","e","s","p","o","n","s","e"," ","f","r","o","m"," ",
      "t","h","e"," ","A","P","I","."," ","N","o"," ","i","m","a","g","e"," ","o","r"," ","t",
      "e","x","t"," ","w","a","s"," ","r","e","t","u","r","n","e","d",".">>

INVALID_FILE_MESSAGE == <<"Please select a valid image file.">>

MISSING_INPUT_MESSAGE == <<"Please select an image and enter a prompt.">>

NO_IMAGE_MESSAGE == <<"The AI did not return an image. Please try a different prompt.">>

UNKNOWN_ERROR_MESSAGE == <<"An unknown error occurred.">>

PERMISSION ==
    <<"p","e","r","m","i","s","s","i","o","n">>

IMAGE_PREFIX ==
    <<"i","m","a","g","e","/">>

DATA_SCHEME ==
    <<"d","a","t","a",":">>

BASE64_MARK ==
    <<";","b","a","s","e","6","4",",">>

MODEL_NAME == <<"gemini-2.5-flash-image-preview">>

DEFAULT_PROMPT ==
    <<"Turn this into a professional, high-quality photograph. Enhance lighting, color balance, and sharpness.">>

-----------------------------------------------------------------------------
(* Values the environment supplies: typed prompts, files, thrown errors.   *)

TYPED_PROMPT == <<"Vintage Film">>

TYPE_ERROR_MESSAGE ==
    <<"C","a","n","n","o","t"," ","r","e","a","d"," ","p","r","o","p","e","r","t","i","e","s",
      " ","o","f"," ","u","n","d","e","f","i","n","e","d"," ","(","r","e","a","d","i","n","g",
      " ","'","c","o","n","t","e","n","t","'",")">>

PNG ==
    <<"i","m","a","g","e","/","p","n","g">>

JPEG ==
    <<"i","m","a","g","e","/","j","p","e","g">>

PLAIN ==
    <<"t","e","x","t","/","p","l","a","i","n">>

M_KEY ==
    <<"A","P","I"," ","k","e","y"," ","n","o","t"," ","v","a","l","i","d","."," ","P","l","e",
      "a","s","e"," ","p","a","s","s"," ","a"," ","v","a","l","i","d"," ","A","P","I"," ","k",
      "e","y",".">>

M_DENIED_LOWER ==
    <<"T","h","e"," ","c","a","l","l","e","r"," ","d","o","e","s"," ","n","o","t"," ","h","a",
      "v","e"," ","p","e","r","m","i","s","s","i","o","n">>

M_DENIED_UPPER ==
    <<"P","e","r","m","i","s","s","i","o","n"," ","d","e","n","i","e","d">>

M_FETCH ==
    <<"f","e","t","c","h"," ","f","a","i","l","e","d">>

M_SOCKET ==
    <<"s","o","c","k","e","t",":"," ","p","e","r","m","i","s","s","i","o","n"," ","d","e","n",
      "i","e","d">>

M_NEAR ==
    <<"p","e","r","m","i","s","s","i","o">>

\* Texts the user types into the textarea.
Prompts == {<<>>, TYPED_PROMPT}

\* Instructions an independent caller passes to the adapter.
Instructions == {<<>>, TYPED_PROMPT}

\* File objects: name, declared media type, and the contents as the base64
\* text FileReader.readAsDataURL produces for them.
FileA == [name |-> <<"a">>, type |-> PNG, data |-> <<"Q","Q","=","=">>]

FileB == [name |-> <<"b">>, type |-> JPEG, data |-> <<"Q","g","=","=">>]

FileT == [name |-> <<"t">>, type |-> PLAIN, data |-> <<"d","A","=","=">>]

ImageFiles == {FileA, FileB}

Files == {FileA, FileB, FileT}

\* Values the remote call throws.  cause records why the call failed (the
\* service refused the credential or the operation, or the transport broke);
\* the program reads isError (instanceof Error) and message only.
UpstreamErrors ==
    { [cause |-> "auth",      isError |-> TRUE,  message |-> M_KEY],
      [cause |-> "auth",      isError |-> TRUE,  message |-> M_DENIED_LOWER],
      [cause |-> "auth",      isError |-> TRUE,  message |-> M_DENIED_UPPER],
      [cause |-> "transport", isError |-> TRUE,  message |-> M_FETCH],
      [cause |-> "transport", isError |-> TRUE,  message |-> M_SOCKET],
      [cause |-> "transport", isError |-> TRUE,  message |-> M_NEAR],
      [cause |-> "transport", isError |-> FALSE, message |-> M_FETCH] }

\* Parts of a response: inline binary data, text (possibly empty), or a part
\* of another kind.
BinaryX == [inlineData |-> [data |-> <<"W","A","=","=">>, mimeType |-> PNG]]

BinaryY == [inlineData |-> [data |-> <<"W","Q","=","=">>, mimeType |-> JPEG]]

ResponseParts ==
    { BinaryX, BinaryY, [text |-> <<>>], [text |-> <<"a">>], [text |-> <<"b">>],
      [functionCall |-> <<"f">>] }

PartLists(n) == UNION { [1..k -> ResponseParts] : k \in 0..n }

\* Responses: no candidates property, an empty candidate list, a candidate
\* without content, content without parts, content with a part list.
ResponsesWith(lists) ==
    { [promptFeedback |-> <<"b">>],
      [candidates |-> <<>>],
      [candidates |-> << [finishReason |-> <<"s">>] >>],
      [candidates |-> << [content |-> [role |-> <<"m">>]] >>] }
    \cup { [candidates |-> << [content |-> [parts |-> ps]] >>] : ps \in lists }

Responses == ResponsesWith(PartLists(MaxParts))

-----------------------------------------------------------------------------
(* String primitives. *)

\* JavaScript truthiness of a string | null.
Truthy(s) == s # Null /\ s # <<>>

\* String.prototype.includes
Includes(s, needle) ==
    \E i \in 1..(Len(s) + 1) :
        /\ i + Len(needle) - 1 <= Len(s)
        /\ SubSeq(s, i, i + Len(needle) - 1) = needle

\* String.prototype.startsWith
StartsWith(s, prefix) ==
    /\ Len(prefix) <= Len(s)
    /\ SubSeq(s, 1, Len(prefix)) = prefix

\* String.prototype.split(','): the fields between commas, in order.
RECURSIVE SplitFrom(_, _, _)
SplitFrom(s, i, field) ==
    IF i > Len(s) THEN <<field>>
    ELSE IF s[i] = "," THEN <<field>> \o SplitFrom(s, i + 1, <<>>)
    ELSE SplitFrom(s, i + 1, Append(field, s[i]))

Split(s) == SplitFrom(s, 1, <<>>)

-----------------------------------------------------------------------------
(* utils/imageUtils: fileToGenerativePart. *)

\* FileReader.readAsDataURL of a file that can be read.
ReadAsDataURL(file) == DATA_SCHEME \o file.type \o BASE64_MARK \o file.data

\* The Part the promise resolves with when the read succeeds.
fileToGenerativePart(file) ==
    [inlineData |-> [data |-> Split(ReadAsDataURL(file))[2], mimeType |-> file.type]]

-----------------------------------------------------------------------------
(* services/geminiService: editImageWithPrompt. *)

\* The argument of ai.models.generateContent.
generateContentRequest(imagePart, textPrompt) ==
    [model    |-> MODEL_NAME,
     contents |-> [parts |-> <<imagePart, [text |-> textPrompt]>>],
     config   |-> [responseModalities |-> <<"IMAGE", "TEXT">>]]

DataUrl(mimeType, base64ImageBytes) ==
    DATA_SCHEME \o mimeType \o BASE64_MARK \o base64ImageBytes

\* A loop body that keeps the first match of each kind.
ScanStepFirstWins(acc, part) ==
    IF "inlineData" \in DOMAIN part
    THEN IF acc.editedImage = Null
         THEN [acc EXCEPT !.editedImage =
                  DataUrl(part.inlineData.mimeType, part.inlineData.data)]
         ELSE acc
    ELSE IF "text" \in DOMAIN part /\ Truthy(part.text) /\ acc.responseText = Null
         THEN [acc EXCEPT !.responseText = part.text]
         ELSE acc

\* One iteration of the loop over the parts.
ScanStep(acc, part) ==
    IF "inlineData" \in DOMAIN part
    THEN [acc EXCEPT !.editedImage =
             DataUrl(part.inlineData.mimeType, part.inlineData.data)]
    ELSE IF "text" \in DOMAIN part /\ Truthy(part.text)
         THEN [acc EXCEPT !.responseText = part.text]
         ELSE acc

RECURSIVE ScanParts(_, _, _)
ScanParts(parts, i, acc) ==
    IF i > Len(parts) THEN acc
    ELSE ScanParts(parts, i + 1, ScanStep(acc, parts[i]))

\* The check with the test dropped.
NothingReturnedNever(acc) == FALSE

\* The check with || for &&.
NothingReturnedEither(acc) == ~Truthy(acc.editedImage) \/ ~Truthy(acc.responseText)

\* !editedImage && !responseText
NothingReturned(acc) == ~Truthy(acc.editedImage) /\ ~Truthy(acc.responseText)

TypeError == [cause |-> "internal", isError |-> TRUE, message |-> TYPE_ERROR_MESSAGE]

InvalidResponseError ==
    [cause |-> "protocol", isError |-> TRUE, message |-> INVALID_RESPONSE_MESSAGE]

\* The try block after the remote call has returned response: what it
\* returns, or the value it throws.
NormalizeResponse(response) ==
    LET start == [editedImage |-> Null, responseText |-> Null]
        finish(acc) ==
            IF NothingReturned(acc)
            THEN [threw |-> TRUE, error |-> InvalidResponseError]
            ELSE [threw |-> FALSE,
                  value |-> [image |-> acc.editedImage, text |-> acc.responseText]]
    IN  IF "candidates" \in DOMAIN response
        THEN IF Len(response.candidates) = 0
                \/ "content" \notin DOMAIN response.candidates[1]
             THEN [threw |-> TRUE, error |-> TypeError]
             ELSE IF "parts" \in DOMAIN response.candidates[1].content
                  THEN finish(ScanParts(response.candidates[1].content.parts, 1, start))
                  ELSE finish(start)
        ELSE finish(start)

TryBlock(outcome) ==
    IF outcome.kind = "throws"
    THEN [threw |-> TRUE, error |-> outcome.error]
    ELSE NormalizeResponse(outcome.response)

\* A catch block that passes the caught message on.
CatchBlockLeaks(caught) ==
    IF caught.isError /\ Includes(caught.message, PERMISSION)
    THEN AUTH_MESSAGE
    ELSE caught.message

\* The catch block: the message of the Error it throws.
CatchBlock(caught) ==
    IF caught.isError /\ Includes(caught.message, PERMISSION)
    THEN AUTH_MESSAGE
    ELSE GENERIC_MESSAGE

\* How the promise of editImageWithPrompt settles, given how the remote call ended.
editImageWithPrompt(outcome) ==
    LET t == TryBlock(outcome)
    IN  IF t.threw
        THEN [status |-> "rejected",
              error  |-> [isError |-> TRUE, message |-> CatchBlock(t.error)]]
        ELSE [status |-> "fulfilled", value |-> t.value]

Returns(response) == [kind |-> "returns", response |-> response]

Throws(e) == [kind |-> "throws", error |-> e]

-----------------------------------------------------------------------------
(* App: the event handlers. *)

\* Outcomes of the remote call drawn for a request of the App.
UiOutcomes ==
    { Returns([candidates |-> << [content |-> [parts |-> ps]] >>]) :
          ps \in { <<>>, <<BinaryX, [text |-> <<"a">>]>>, << [text |-> <<"a">>] >> } }
    \cup { Throws(e) : e \in { u \in UpstreamErrors : u.isError } }

resetState ==
    /\ originalImage' = NoFile
    /\ originalImageUrl' = Null
    /\ editedImageUrl' = Null
    /\ error' = Null
    /\ isLoading' = FALSE

\* handleImageChange; setOriginalImage(file) follows resetState in the same batch.
handleImageChange(file) ==
    IF file # NoFile /\ StartsWith(file.type, IMAGE_PREFIX)
    THEN /\ BagCardinality(previewReads) < MaxPreviewReads
         /\ originalImage' = file
         /\ originalImageUrl' = Null
         /\ editedImageUrl' = Null
         /\ error' = Null
         /\ isLoading' = FALSE
         /\ previewReads' = previewReads (+) SetToBag({file})
         /\ UNCHANGED <<prompt, requests, hung>>
    ELSE /\ error' = INVALID_FILE_MESSAGE
         /\ UNCHANGED <<originalImage, originalImageUrl, editedImageUrl, prompt,
                        isLoading, previewReads, requests, hung>>

\* handleFileSelect and handleDrop both pass the first file, or null, to
\* handleImageChange.  The drag highlight (isDragging) is not part of the model.
handleFileSelect(file) == handleImageChange(file)

handleDrop(file) == handleImageChange(file)

\* reader.onloadend of handleImageChange; reader.result is null when the read failed.
PreviewLoadEnd(file, ok) ==
    /\ file \in BagToSet(previewReads)
    /\ previewReads' = previewReads (-) SetToBag({file})
    /\ originalImageUrl' = IF ok THEN ReadAsDataURL(file) ELSE Null
    /\ UNCHANGED <<originalImage, editedImageUrl, prompt, isLoading, error, requests, hung>>

\* The Clear Image button, rendered when originalImageUrl is set.
ClearImage ==
    /\ originalImageUrl # Null
    /\ resetState
    /\ UNCHANGED <<prompt, previewReads, requests, hung>>

\* onChange of the textarea.
SetPrompt(p) ==
    /\ prompt' = p
    /\ UNCHANGED <<originalImage, originalImageUrl, editedImageUrl, isLoading, error,
                   previewReads, requests, hung>>

\* disabled={isLoading || !originalImage}
GenerateDisabled == isLoading \/ originalImage = NoFile

\* handleGenerate, the guard at its head taken.
GenerateRejected ==
    /\ ~GenerateDisabled
    /\ originalImage = NoFile \/ ~Truthy(prompt)
    /\ error' = MISSING_INPUT_MESSAGE
    /\ UNCHANGED <<originalImage, originalImageUrl, editedImageUrl, prompt, isLoading,
                   previewReads, requests, hung>>

\* handleGenerate up to its first await: fileToGenerativePart has started reading.
GenerateStarted ==
    /\ ~GenerateDisabled
    /\ ~(originalImage = NoFile \/ ~Truthy(prompt))
    /\ BagCardinality(requests) < MaxRequests
    /\ isLoading' = TRUE
    /\ editedImageUrl' = Null
    /\ error' = Null
    /\ requests' = requests (+)
           SetToBag({[stage |-> "reading", file |-> originalImage, prompt |-> prompt]})
    /\ UNCHANGED <<originalImage, originalImageUrl, prompt, previewReads, hung>>

handleGenerate == GenerateRejected \/ GenerateStarted

\* reader.onloadend of fileToGenerativePart.  A read that succeeded resolves
\* the promise and handleGenerate goes on to call editImageWithPrompt, which
\* sends the request.  A read that failed leaves reader.result null, the
\* handler throws at .split and the promise is never settled.
EncoderLoadEnd(r, ok) ==
    /\ r \in BagToSet(requests)
    /\ r.stage = "reading"
    /\ IF ok
       THEN /\ requests' = (requests (-) SetToBag({r})) (+)
                   SetToBag({[stage |-> "calling", file |-> r.file, prompt |-> r.prompt]})
            /\ UNCHANGED hung
       ELSE /\ requests' = requests (-) SetToBag({r})
            /\ hung' = hung \cup {r.file}
    /\ UNCHANGED <<originalImage, originalImageUrl, editedImageUrl, prompt, isLoading,
                   error, previewReads>>

\* handleGenerate from the settling of editImageWithPrompt to its end.
RemoteSettles(r, outcome) ==
    /\ r \in BagToSet(requests)
    /\ r.stage = "calling"
    /\ requests' = requests (-) SetToBag({r})
    /\ LET result == editImageWithPrompt(outcome)
       IN  IF result.status = "fulfilled"
           THEN IF Truthy(result.value.image)
                THEN /\ editedImageUrl' = result.value.image
                     /\ UNCHANGED error
                ELSE /\ error' = IF Truthy(result.value.text) THEN result.value.text
                                 ELSE NO_IMAGE_MESSAGE
                     /\ UNCHANGED editedImageUrl
           ELSE /\ error' = IF result.error.isError THEN result.error.message
                            ELSE UNKNOWN_ERROR_MESSAGE
                /\ UNCHANGED editedImageUrl
    /\ isLoading' = FALSE
    /\ UNCHANGED <<originalImage, originalImageUrl, prompt, previewReads, hung>>

-----------------------------------------------------------------------------
(* An independent caller of editImageWithPrompt. *)

Idle == [state |-> "idle"]

NoFailure == [state |-> "none"]

\* The call starts: the request is built and sent, the caller is suspended.
Invoke(imagePart, textPrompt) ==
    /\ call.state = "idle"
    /\ call' = [state      |-> "pending",
                textPrompt |-> textPrompt,
                request    |-> generateContentRequest(imagePart, textPrompt)]
    /\ UNCHANGED prevFailure

Settle(outcome) ==
    /\ call.state = "pending"
    /\ call' = [state      |-> "settled",
                textPrompt |-> call.textPrompt,
                request    |-> call.request,
                outcome    |-> outcome,
                result     |-> editImageWithPrompt(outcome)]
    /\ UNCHANGED prevFailure

RemoteReturns(response) == Settle(Returns(response))

RemoteThrows(e) == Settle(Throws(e))

\* The caller takes the result and is free to call again.
Collect ==
    /\ call.state = "settled"
    /\ prevFailure' = IF call.result.status = "rejected"
                      THEN [state   |-> "failed",
                            outcome |-> call.outcome,
                            message |-> call.result.error.message]
                      ELSE prevFailure
    /\ call' = Idle

-----------------------------------------------------------------------------
(* Specifications. *)

UiInit ==
    /\ originalImage = NoFile
    /\ originalImageUrl = Null
    /\ editedImageUrl = Null
    /\ prompt = DEFAULT_PROMPT
    /\ isLoading = FALSE
    /\ error = Null
    /\ previewReads = EmptyBag
    /\ requests = EmptyBag
    /\ hung = {}

AdapterInit ==
    /\ call = Idle
    /\ prevFailure = NoFailure

Init == UiInit /\ AdapterInit

AdapterNext ==
    \/ \E f \in ImageFiles, t \in Instructions :
           Invoke(fileToGenerativePart(f), t) /\ UNCHANGED uiVars
    \/ \E r \in Responses : RemoteReturns(r) /\ UNCHANGED uiVars
    \/ \E e \in UpstreamErrors : RemoteThrows(e) /\ UNCHANGED uiVars
    \/ Collect /\ UNCHANGED uiVars

SpecAdapter == Init /\ [][AdapterNext]_vars

Next ==
    \/ \E f \in Files \cup {NoFile} : handleFileSelect(f) /\ UNCHANGED adapterVars
    \/ \E f \in Files \cup {NoFile} : handleDrop(f) /\ UNCHANGED adapterVars
    \/ \E f \in ImageFiles, ok \in BOOLEAN : PreviewLoadEnd(f, ok) /\ UNCHANGED adapterVars
    \/ ClearImage /\ UNCHANGED adapterVars
    \/ \E p \in Prompts : SetPrompt(p) /\ UNCHANGED adapterVars
    \/ handleGenerate /\ UNCHANGED adapterVars
    \/ \E r \in BagToSet(requests), ok \in BOOLEAN :
           EncoderLoadEnd(r, ok) /\ UNCHANGED adapterVars
    \/ \E r \in BagToSet(requests), o \in UiOutcomes :
           RemoteSettles(r, o) /\ UNCHANGED adapterVars

Spec == Init /\ [][Next]_vars

-----------------------------------------------------------------------------
(* Properties of editImageWithPrompt, checked under SpecAdapter. *)

\* Whether the response carries a part list the loop runs over.
HasPartList(response) ==
    /\ "candidates" \in DOMAIN response
    /\ Len(response.candidates) > 0
    /\ "content" \in DOMAIN response.candidates[1]
    /\ "parts" \in DOMAIN response.candidates[1].content

PartListOf(response) ==
    IF HasPartList(response) THEN response.candidates[1].content.parts ELSE <<>>

BinaryAt(ps) == { i \in DOMAIN ps : "inlineData" \in DOMAIN ps[i] }

TextAt(ps) == { i \in DOMAIN ps : "text" \in DOMAIN ps[i] }

NonEmptyTextAt(ps) == { i \in TextAt(ps) : ps[i].text # <<>> }

First(S) == CHOOSE m \in S : \A n \in S : m <= n

Last(S) == CHOOSE m \in S : \A n \in S : n <= m

\* data:<mediaType>;base64,<payload>
DataUriOf(part) ==
    <<"d","a","t","a",":">> \o part.inlineData.mimeType
        \o <<";","b","a","s","e","6","4",",">> \o part.inlineData.data

SettledReturn == call.state = "settled" /\ call.outcome.kind = "returns"

SettledThrow == call.state = "settled" /\ call.outcome.kind = "throws"

ReturnedParts == PartListOf(call.outcome.response)

\* C3 as stated: for a response with at least one binary part and at least
\* one text part, the result's image is the data URL of the last binary part
\* and its text is the content of the last text part.
C3_LastBinaryLastText ==
    (/\ SettledReturn
     /\ HasPartList(call.outcome.response)
     /\ BinaryAt(ReturnedParts) # {}
     /\ TextAt(ReturnedParts) # {})
    => /\ call.result.status = "fulfilled"
       /\ call.result.value.image = DataUriOf(ReturnedParts[Last(BinaryAt(ReturnedParts))])
       /\ call.result.value.text = ReturnedParts[Last(TextAt(ReturnedParts))].text

\* C3 amended: for a response with at least one binary part and at least one
\* text part, the result's image is the data URL of the last binary part and
\* its text is the content of the last non-empty text part, or null when
\* every text part is empty.
C3_LastBinaryLastNonEmptyText ==
    (/\ SettledReturn
     /\ HasPartList(call.outcome.response)
     /\ BinaryAt(ReturnedParts) # {}
     /\ TextAt(ReturnedParts) # {})
    => /\ call.result.status = "fulfilled"
       /\ call.result.value.image = DataUriOf(ReturnedParts[Last(BinaryAt(ReturnedParts))])
       /\ call.result.value.text =
              IF NonEmptyTextAt(ReturnedParts) = {} THEN Null
              ELSE ReturnedParts[Last(NonEmptyTextAt(ReturnedParts))].text

\* A call has settled on a response with two different binary parts, X before
\* Y, and a text part.
C3_Witness ==
    /\ SettledReturn
    /\ HasPartList(call.outcome.response)
    /\ Cardinality(BinaryAt(ReturnedParts)) >= 2
    /\ ReturnedParts[First(BinaryAt(ReturnedParts))] = BinaryX
    /\ ReturnedParts[Last(BinaryAt(ReturnedParts))] = BinaryY
    /\ NonEmptyTextAt(ReturnedParts) # {}
    /\ call.result.status = "fulfilled"

\* C4: a response with no binary part and no text part (no candidates and an
\* empty part list included) makes the call fail, and no call is fulfilled
\* with image and text both null.
C4_NothingReturnedFails ==
    /\ (/\ SettledReturn
        /\ BinaryAt(ReturnedParts) = {}
        /\ TextAt(ReturnedParts) = {})
       => call.result.status = "rejected"
    /\ (call.state = "settled" /\ call.result.status = "fulfilled")
       => ~(call.result.value.image = Null /\ call.result.value.text = Null)

\* A call has failed on a response whose part list is empty.
C4_Witness ==
    /\ SettledReturn
    /\ HasPartList(call.outcome.response)
    /\ ReturnedParts = <<>>
    /\ call.result.status = "rejected"

\* C5 as stated: when the remote call fails because the service refused the
\* credential or the operation, and whenever the thrown error's message
\* contains "permission", the call fails with the authorization message.
C5_AuthorizationMessage ==
    (/\ SettledThrow
     /\ \/ call.outcome.error.cause = "auth"
        \/ Includes(call.outcome.error.message, PERMISSION))
    => /\ call.result.status = "rejected"
       /\ call.result.error.message = AUTH_MESSAGE
       /\ AUTH_MESSAGE # GENERIC_MESSAGE

\* C7: a response with at least one non-empty text part and no binary part
\* fulfils the call with image null and text the last non-empty text.
C7_TextOnlySucceeds ==
    (/\ SettledReturn
     /\ HasPartList(call.outcome.response)
     /\ BinaryAt(ReturnedParts) = {}
     /\ NonEmptyTextAt(ReturnedParts) # {})
    => /\ call.result.status = "fulfilled"
       /\ call.result.value.image = Null
       /\ call.result.value.text =
              ReturnedParts[Last(NonEmptyTextAt(ReturnedParts))].text

\* A call was fulfilled on a response of text parts alone, two of them
\* non-empty and different.
C7_Witness ==
    /\ SettledReturn
    /\ HasPartList(call.outcome.response)
    /\ BinaryAt(ReturnedParts) = {}
    /\ Cardinality(NonEmptyTextAt(ReturnedParts)) >= 2
    /\ ReturnedParts[First(NonEmptyTextAt(ReturnedParts))]
           # ReturnedParts[Last(NonEmptyTextAt(ReturnedParts))]
    /\ call.result.status = "fulfilled"

\* The failures the caller has seen: the one before, and the settled call's.
SeenFailures ==
    (IF prevFailure.state = "failed"
     THEN {[outcome |-> prevFailure.outcome, message |-> prevFailure.message]}
     ELSE {})
    \cup
    (IF call.state = "settled" /\ call.result.status = "rejected"
     THEN {[outcome |-> call.outcome, message |-> call.result.error.message]}
     ELSE {})

\* A failure that is no authorization failure: a response that could not be
\* used, or a thrown value that neither comes from a refusal by the service
\* nor mentions "permission".
NonAuthorization(outcome) ==
    \/ outcome.kind = "returns"
    \/ /\ outcome.kind = "throws"
       /\ outcome.error.cause # "auth"
       /\ ~Includes(outcome.error.message, PERMISSION)

\* C8: every failure reaches the caller with the authorization message or the
\* generic message, and any two failures that are not authorization failures
\* reach it with the same message, whatever was thrown or returned upstream.
C8_TwoFixedMessages ==
    /\ \A f \in SeenFailures : f.message \in {AUTH_MESSAGE, GENERIC_MESSAGE}
    /\ \A f, g \in SeenFailures :
           NonAuthorization(f.outcome) /\ NonAuthorization(g.outcome)
               => f.message = g.message

\* The caller has seen two failures that are not authorization failures: a
\* thrown value and an unusable response, or two thrown values with
\* different messages.
C8_Witness ==
    \E f, g \in SeenFailures :
        /\ NonAuthorization(f.outcome) /\ NonAuthorization(g.outcome)
        /\ f.outcome.kind = "throws"
        /\ \/ g.outcome.kind = "returns"
           \/ /\ g.outcome.kind = "throws"
              /\ g.outcome.error.message # f.outcome.error.message

\* C9 as stated: no remote call is made with an empty instruction.
C9_EmptyInstructionNeverSent ==
    call.state \in {"pending", "settled"}
        => call.request.contents.parts[2].text # <<>>

-----------------------------------------------------------------------------
(* Properties of the App, checked under Spec. *)

\* A step that ends an invocation of handleGenerate.
GenerateFinishes ==
    \/ GenerateRejected
    \/ \E r \in BagToSet(requests), o \in UiOutcomes : RemoteSettles(r, o)

\* C1 as stated: when an invocation of handleGenerate has finished, exactly
\* one of editedImageUrl and error is non-null.
C1_ExactlyOneDisplayed ==
    [][GenerateFinishes =>
          \/ editedImageUrl' # Null /\ error' = Null
          \/ editedImageUrl' = Null /\ error' # Null]_vars

\* C2 as stated: at most one edit request is outstanding at any time.
C2_AtMostOneOutstanding == BagCardinality(requests) <= 1

\* C6 as stated: a read that fails rejects the promise of
\* fileToGenerativePart, so no invocation is left with a promise that can
\* never settle.
C6_ReadFailureRejects == hung = {}

\* C10 as stated: the outcome of a request is written only while the image
\* the request was started for is the selected one, and editedImageUrl is
\* never non-null while no original image is selected.
C10_OutcomeOnlyForSelectedImage ==
    [][/\ \A r \in BagToSet(requests), o \in UiOutcomes :
              RemoteSettles(r, o) => r.file = originalImage
       /\ editedImageUrl' # Null => originalImage' # NoFile]_vars

====
